---- MODULE Spec2Model ----
(***************************************************************************)
(* Model of the notes backend: the data-access layer (api/dao.py), the     *)
(* request models (api/models.py) and the HTTP handlers (api/main.py).     *)
(*                                                                         *)
(* The notes table is a set of rows.  Two specifications are given:        *)
(*   Spec      every request runs to completion before the next starts;    *)
(*   SpecConc  the statements of create_note and update_note of different  *)
(*             requests interleave at their commit boundaries.             *)
(* Timestamps are whole seconds of the clock.                              *)
(***************************************************************************)
EXTENDS Integers, Sequences, FiniteSets, TLC

\* ---------------------------------------------------------------- bounds
MaxNotes == 2
MaxClock == 1
\* rows created while requests interleave
MaxConcNotes == 1

Clients == {"c1", "c2"}
Texts == {"a", "b"}

\* Python's None for an Optional[str] field, and for an Optional[Note].
NoneStr == "<None>"
None == [none |-> TRUE]

\* Inputs a caller can send.
TitleInputs == Texts \cup {""}
OptInputs == Texts \cup {"", NoneStr}
IdInputs == 0..MaxNotes
NoteCreateInputs == [title : TitleInputs, content : TitleInputs]
NoteUpdateInputs == [title : OptInputs, content : OptInputs]

\* ---------------------------------------------------------------- state
VARIABLES notes, seq, clock, pc, req, resp

vars == <<notes, seq, clock, pc, req, resp>>

NoReq == [op |-> "none"]
NoResp == [op |-> "none", status |-> 0]

\* ---------------------------------------------------------------- models.py
ValidNoteCreate(payload) ==
    /\ Len(payload.title) >= 1
    /\ Len(payload.content) >= 1

ValidNoteUpdateLax(payload) ==
    TRUE

ValidNoteUpdate(payload) ==
    /\ (payload.title # NoneStr => Len(payload.title) >= 1)
    /\ (payload.content # NoneStr => Len(payload.content) >= 1)

ValidId(id) == id >= 1

\* ---------------------------------------------------------------- the store
\* Column defaults of the notes table: id from the auto-increment sequence,
\* created_at and updated_at both the instant of the insert.
NewRow(last_seq, now, title, content) ==
    [id |-> last_seq + 1, title |-> title, content |-> content,
     created_at |-> now, updated_at |-> now]

\* The store's refresh of updated_at on a row that an UPDATE has written.
TouchUpdatedAt(row, now) ==
    [row EXCEPT !.updated_at = now]

\* datetime(x) of a stored 'YYYY-MM-DD HH:MM:SS' text, counted in seconds.
datetime(ts) == ts

\* ---------------------------------------------------------------- dao.py
row_to_note(row) ==
    [id |-> row.id, title |-> row.title, content |-> row.content,
     created_at |-> row.created_at, updated_at |-> row.updated_at]

get_note(db, note_id) ==
    LET rows == {r \in db : r.id = note_id}
    IN IF rows # {} THEN row_to_note(CHOOSE r \in rows : TRUE) ELSE None

OrderBeforeIdAsc(r, s) ==
    \/ datetime(r.updated_at) > datetime(s.updated_at)
    \/ /\ datetime(r.updated_at) = datetime(s.updated_at)
       /\ r.id < s.id

\* ORDER BY datetime(updated_at) DESC, id DESC
OrderBefore(r, s) ==
    \/ datetime(r.updated_at) > datetime(s.updated_at)
    \/ /\ datetime(r.updated_at) = datetime(s.updated_at)
       /\ r.id > s.id

RECURSIVE OrderBy(_)
OrderBy(rows) ==
    IF rows = {} THEN <<>>
    ELSE LET first == CHOOSE r \in rows :
                          \A s \in rows \ {r} : OrderBefore(r, s)
         IN <<first>> \o OrderBy(rows \ {first})

list_notes(db) ==
    LET rows == OrderBy(db)
    IN [i \in 1..Len(rows) |-> row_to_note(rows[i])]

InsertStmtSwapped(db, last_seq, now, title, content) ==
    db \cup {NewRow(last_seq, now, content, title)}

\* INSERT INTO notes (title, content) VALUES (?, ?); commit
InsertStmt(db, last_seq, now, title, content) ==
    db \cup {NewRow(last_seq, now, title, content)}

UpdateStmtUpsert(db, now, note_id, title, content) ==
    {r \in db : r.id # note_id}
        \cup {[id |-> note_id, title |-> title, content |-> content,
               created_at |-> now, updated_at |-> now]}

\* UPDATE notes SET title = ?, content = ? WHERE id = ?; commit
UpdateStmt(db, now, note_id, title, content) ==
    {IF r.id = note_id
        THEN TouchUpdatedAt([r EXCEPT !.title = title, !.content = content], now)
        ELSE r : r \in db}

DeleteStmtAll(db, note_id) ==
    IF \E r \in db : r.id = note_id THEN {} ELSE db

\* DELETE FROM notes WHERE id = ?; commit
DeleteStmt(db, note_id) ==
    {r \in db : r.id # note_id}

MergeFieldsKeepContent(payload, existing) ==
    [title |-> IF payload.title # NoneStr THEN payload.title ELSE existing.title,
     content |-> existing.content]

\* new_title / new_content of update_note
MergeFields(payload, existing) ==
    [title |-> IF payload.title # NoneStr THEN payload.title ELSE existing.title,
     content |-> IF payload.content # NoneStr THEN payload.content
                                             ELSE existing.content]

create_note(db, last_seq, now, payload) ==
    LET db1 == InsertStmt(db, last_seq, now, payload.title, payload.content)
        new_id == last_seq + 1
        created == get_note(db1, new_id)
    IN [db |-> db1, seq |-> new_id, result |-> created,
        raised |-> (created = None)]

update_note_skip_empty(db, now, note_id, payload) ==
    LET existing == get_note(db, note_id)
    IN IF existing = None
          THEN [db |-> db, result |-> None]
          ELSE LET m == MergeFields(payload, existing)
                   db1 == IF payload.title = NoneStr /\ payload.content = NoneStr
                             THEN db
                             ELSE UpdateStmt(db, now, note_id, m.title, m.content)
               IN [db |-> db1, result |-> get_note(db1, note_id)]

update_note(db, now, note_id, payload) ==
    LET existing == get_note(db, note_id)
    IN IF existing = None
          THEN [db |-> db, result |-> None]
          ELSE LET m == MergeFields(payload, existing)
                   db1 == UpdateStmt(db, now, note_id, m.title, m.content)
               IN [db |-> db1, result |-> get_note(db1, note_id)]

delete_note_always_true(db, note_id) ==
    LET db1 == DeleteStmt(db, note_id)
    IN [db |-> db1, result |-> (Cardinality(db) - Cardinality(db1) >= 0)]

delete_note(db, note_id) ==
    LET db1 == DeleteStmt(db, note_id)
        rowcount == Cardinality(db) - Cardinality(db1)
    IN [db |-> db1, result |-> (rowcount > 0)]

\* ---------------------------------------------------------------- initial state
Init ==
    /\ notes = {}
    /\ seq = 0
    /\ clock = 0
    /\ pc = [c \in Clients |-> "idle"]
    /\ req = [c \in Clients |-> NoReq]
    /\ resp = NoResp

\* The wall clock advances between requests.
Tick ==
    /\ clock < MaxClock
    /\ clock' = clock + 1
    /\ resp' = NoResp
    /\ UNCHANGED <<notes, seq, pc, req>>

\* ---------------------------------------------------------------- main.py
\* resp is the response to the request handled last: the operation, the HTTP
\* status and, where the handler returns one, the body.
http_list_notes ==
    /\ resp' = [op |-> "list", status |-> 200, body |-> list_notes(notes)]
    /\ UNCHANGED <<notes, seq, clock, pc, req>>

http_get_note ==
    \E id \in IdInputs :
        /\ IF ~ValidId(id)
              THEN resp' = [op |-> "get", status |-> 422]
              ELSE LET note == get_note(notes, id)
                   IN resp' = [op |-> "get", id |-> id,
                               status |-> IF note = None THEN 404 ELSE 200,
                               body |-> note]
        /\ UNCHANGED <<notes, seq, clock, pc, req>>

http_create_note ==
    \E payload \in NoteCreateInputs :
        IF ~ValidNoteCreate(payload)
           THEN /\ resp' = [op |-> "create", status |-> 422]
                /\ UNCHANGED <<notes, seq, clock, pc, req>>
           ELSE /\ seq < MaxNotes
                /\ LET r == create_note(notes, seq, clock, payload)
                   IN /\ notes' = r.db
                      /\ seq' = r.seq
                      /\ resp' = [op |-> "create", payload |-> payload,
                                  status |-> IF r.raised THEN 500 ELSE 201,
                                  body |-> r.result]
                /\ UNCHANGED <<clock, pc, req>>

http_update_note ==
    \E id \in IdInputs, payload \in NoteUpdateInputs :
        IF ~ValidId(id) \/ ~ValidNoteUpdate(payload)
           THEN /\ resp' = [op |-> "update", status |-> 422]
                /\ UNCHANGED <<notes, seq, clock, pc, req>>
           ELSE LET r == update_note(notes, clock, id, payload)
                IN /\ notes' = r.db
                   /\ resp' = IF r.result = None
                                 THEN [op |-> "update", id |-> id, status |-> 404]
                                 ELSE [op |-> "update", id |-> id, payload |-> payload,
                                       status |-> 200, body |-> r.result]
                   /\ UNCHANGED <<seq, clock, pc, req>>

http_delete_note ==
    \E id \in IdInputs :
        IF ~ValidId(id)
           THEN /\ resp' = [op |-> "delete", status |-> 422]
                /\ UNCHANGED <<notes, seq, clock, pc, req>>
           ELSE LET r == delete_note(notes, id)
                IN /\ notes' = r.db
                   /\ resp' = [op |-> "delete", id |-> id,
                               status |-> IF r.result THEN 204 ELSE 404]
                   /\ UNCHANGED <<seq, clock, pc, req>>

Next ==
    \/ Tick
    \/ http_list_notes
    \/ http_get_note
    \/ http_create_note
    \/ http_update_note
    \/ http_delete_note

Spec == Init /\ [][Next]_vars

\* ---------------------------------------------------------------- interleaved requests
\* create_note, first half: validation, INSERT, commit, lastrowid.
CreateInsert(c) ==
    /\ pc[c] = "idle"
    /\ \E payload \in NoteCreateInputs :
        IF ~ValidNoteCreate(payload)
           THEN /\ resp' = [op |-> "create", status |-> 422]
                /\ UNCHANGED <<notes, seq, clock, pc, req>>
           ELSE /\ seq < MaxConcNotes
                /\ notes' = InsertStmt(notes, seq, clock, payload.title, payload.content)
                /\ seq' = seq + 1
                /\ req' = [req EXCEPT ![c] = [op |-> "create", new_id |-> seq + 1]]
                /\ pc' = [pc EXCEPT ![c] = "create_readback"]
                /\ resp' = NoResp
                /\ UNCHANGED clock

\* create_note, second half: get_note(conn, new_id) and the guard on it.
CreateReadback(c) ==
    /\ pc[c] = "create_readback"
    /\ LET created == get_note(notes, req[c].new_id)
       IN resp' = [op |-> "create", id |-> req[c].new_id,
                   status |-> IF created = None THEN 500 ELSE 201]
    /\ pc' = [pc EXCEPT ![c] = "idle"]
    /\ req' = [req EXCEPT ![c] = NoReq]
    /\ UNCHANGED <<notes, seq, clock>>

\* update_note, lookup: existing = get_note(conn, note_id), the early return
\* and the merge of the payload with the row that was read.
UpdateLookup(c) ==
    /\ pc[c] = "idle"
    /\ \E id \in IdInputs, payload \in NoteUpdateInputs :
        IF ~ValidId(id) \/ ~ValidNoteUpdate(payload)
           THEN /\ resp' = [op |-> "update", status |-> 422]
                /\ UNCHANGED <<notes, seq, clock, pc, req>>
           ELSE LET existing == get_note(notes, id)
                IN IF existing = None
                      THEN /\ resp' = [op |-> "update", id |-> id, status |-> 404]
                           /\ UNCHANGED <<notes, seq, clock, pc, req>>
                      ELSE /\ req' = [req EXCEPT ![c] =
                                         [op |-> "update", id |-> id, payload |-> payload,
                                          merged |-> MergeFields(payload, existing)]]
                           /\ pc' = [pc EXCEPT ![c] = "update_write"]
                           /\ resp' = NoResp
                           /\ UNCHANGED <<notes, seq, clock>>

\* update_note, write: UPDATE with the merged values, commit.
UpdateWrite(c) ==
    /\ pc[c] = "update_write"
    /\ notes' = UpdateStmt(notes, clock, req[c].id,
                           req[c].merged.title, req[c].merged.content)
    /\ pc' = [pc EXCEPT ![c] = "update_readback"]
    /\ resp' = NoResp
    /\ UNCHANGED <<seq, clock, req>>

\* update_note, return get_note(conn, note_id); the handler maps None to 404.
UpdateReadback(c) ==
    /\ pc[c] = "update_readback"
    /\ LET updated == get_note(notes, req[c].id)
       IN resp' = [op |-> "update", id |-> req[c].id,
                   status |-> IF updated = None THEN 404 ELSE 200]
    /\ pc' = [pc EXCEPT ![c] = "idle"]
    /\ req' = [req EXCEPT ![c] = NoReq]
    /\ UNCHANGED <<notes, seq, clock>>

\* Requests in flight together are taken within one second of the clock, the
\* resolution of the stored timestamps, so the clock does not tick here.
NextConc ==
    \/ http_delete_note
    \/ \E c \in Clients : CreateInsert(c)
    \/ \E c \in Clients : CreateReadback(c)
    \/ \E c \in Clients : UpdateLookup(c)
    \/ \E c \in Clients : UpdateWrite(c)
    \/ \E c \in Clients : UpdateReadback(c)

SpecConc == Init /\ [][NextConc]_vars

\* ---------------------------------------------------------------- helpers of the properties
Has(db, id) == \E r \in db : r.id = id

Row(db, id) == CHOOSE r \in db : r.id = id

Others(db, id) == {r \in db : r.id # id}

PrimaryKeyUnique ==
    \A r, s \in notes : r.id = s.id => r = s

IdsAssigned ==
    \A r \in notes : r.id \in 1..seq

\* ---------------------------------------------------------------- properties

C2_UpdateMerges ==
    [][/\ (resp'.op = "update" /\ resp'.status = 200) =>
             /\ ValidNoteUpdate(resp'.payload)
             /\ Has(notes, resp'.id)
             /\ Has(notes', resp'.id)
             /\ LET p == resp'.payload
                    old == Row(notes, resp'.id)
                    new == Row(notes', resp'.id)
                IN /\ new.title = (IF p.title # NoneStr THEN p.title ELSE old.title)
                   /\ new.content = (IF p.content # NoneStr THEN p.content
                                                             ELSE old.content)
                   /\ new.id = old.id
                   /\ new.created_at = old.created_at
                   /\ resp'.body = row_to_note(new)
             /\ Others(notes', resp'.id) = Others(notes, resp'.id)
             /\ Cardinality(notes') = Cardinality(notes)
       /\ (resp'.op = "update" /\ resp'.status = 404) => ~Has(notes, resp'.id)]_vars

C2_Witness ==
    /\ resp.op = "update"
    /\ resp.status = 200
    /\ resp.payload.title = NoneStr
    /\ resp.payload.content # NoneStr
    /\ resp.body.title # resp.body.content
    /\ Cardinality(notes) = 2

\* C3: create of a valid payload returns a note with a positive id that no
\* stored note held; get(id) right after it returns the payload's title and
\* content with created_at = updated_at; the notes stored before are unchanged.
C3_CreateThenGet ==
    [][(resp'.op = "create" /\ resp'.status # 422) =>
          /\ resp'.status = 201
          /\ resp'.body.id >= 1
          /\ ~Has(notes, resp'.body.id)
          /\ LET got == get_note(notes', resp'.body.id)
             IN /\ got # None
                /\ got = resp'.body
                /\ got.title = resp'.payload.title
                /\ got.content = resp'.payload.content
                /\ got.created_at = got.updated_at
          /\ Others(notes', resp'.body.id) = notes
          /\ Cardinality(notes') = Cardinality(notes) + 1]_vars

C3_Witness ==
    /\ resp.op = "create"
    /\ resp.status = 201
    /\ resp.body.title # resp.body.content
    /\ Cardinality(notes) = 2
    /\ get_note(notes, resp.body.id) = resp.body

\* C4: update and delete of an id that has no stored note report not-found
\* and leave every stored note as it was.
C4_NotFoundNoChange ==
    [][/\ (resp'.op \in {"update", "delete"} /\ resp'.status = 404) =>
             /\ ~Has(notes, resp'.id)
             /\ notes' = notes
             /\ seq' = seq
       /\ (resp'.op \in {"update", "delete"} /\ resp'.status \in {200, 204}) =>
             Has(notes, resp'.id)]_vars

C4_Witness ==
    /\ resp.op = "update"
    /\ resp.status = 404
    /\ ~Has(notes, resp.id)
    /\ notes # {}

\* C5: delete of a stored note succeeds and removes that note only; from then
\* on, as long as no create runs, get of the id reports not-found and another
\* delete of it reports not-found too.
C5_DeleteRemoves ==
    [][/\ (resp'.op = "delete" /\ resp'.status # 422 /\ Has(notes, resp'.id)) =>
             /\ resp'.status = 204
             /\ notes' = Others(notes, resp'.id)
             /\ Cardinality(notes') = Cardinality(notes) - 1
       /\ \A id \in 1..seq :
             (~Has(notes, id) /\ resp'.op # "create") => ~Has(notes', id)
       /\ (resp'.op \in {"get", "delete"} /\ resp'.status # 422
              /\ ~Has(notes, resp'.id)) => resp'.status = 404]_vars

C5_Witness ==
    /\ resp.op = "delete"
    /\ resp.status = 404
    /\ resp.id \in 1..seq
    /\ notes # {}

Precedes(a, b) ==
    \/ a.updated_at > b.updated_at
    \/ (a.updated_at = b.updated_at /\ a.id > b.id)

\* C6: list returns every stored note exactly once and nothing else, by
\* updated_at descending and then id descending; an empty store lists as the
\* empty sequence.
C6_ListOrdered ==
    resp.op = "list" =>
        LET L == resp.body
        IN /\ resp.status = 200
           /\ Len(L) = Cardinality(notes)
           /\ {L[i] : i \in 1..Len(L)} = {row_to_note(r) : r \in notes}
           /\ \A i, j \in 1..Len(L) : i < j => ~Precedes(L[j], L[i])
           /\ (notes = {} => L = <<>>)

C6_Witness ==
    /\ resp.op = "list"
    /\ Len(resp.body) = 2
    /\ resp.body[1].id < resp.body[2].id
    /\ resp.body[1].updated_at > resp.body[2].updated_at

NoEmptyStored ==
    \A r \in notes : r.title # "" /\ r.content # ""

\* C7: no stored note ever has an empty title or an empty content, and a
\* request rejected as a validation error leaves the store unchanged.
C7_NeverEmpty ==
    /\ []NoEmptyStored
    /\ [][resp'.status = 422 => (notes' = notes /\ seq' = seq)]_vars

C7_Witness ==
    /\ resp.op = "update"
    /\ resp.status = 422
    /\ notes # {}
    /\ NoEmptyStored

\* C8: the write of an update leaves a field its payload omits as the store
\* held it just before the write, also when another update of the same note
\* ran between the lookup and the write.
C8_OmittedFieldKept ==
    [][\A c \in Clients :
          (/\ pc[c] = "update_write"
           /\ pc'[c] = "update_readback"
           /\ Has(notes, req[c].id)) =>
              /\ Has(notes', req[c].id)
              /\ (req[c].payload.title = NoneStr =>
                     Row(notes', req[c].id).title = Row(notes, req[c].id).title)
              /\ (req[c].payload.content = NoneStr =>
                     Row(notes', req[c].id).content = Row(notes, req[c].id).content)]_vars

\* C9: create's readback of the row it inserted never fails, so create never
\* ends in the internal-consistency failure.
C9_ReadbackNeverFails ==
    ~(resp.op = "create" /\ resp.status = 500)

\* C10: when the note is deleted between an update's lookup and its write,
\* the write touches no row, the note stays absent and the update reports
\* not-found.
C10_NoResurrection ==
    [][/\ \A c \in Clients :
             /\ (/\ pc[c] = "update_write"
                 /\ pc'[c] = "update_readback"
                 /\ ~Has(notes, req[c].id)) => notes' = notes
             /\ (/\ pc[c] = "update_readback"
                 /\ pc'[c] = "idle"
                 /\ ~Has(notes, req[c].id)) =>
                    /\ resp'.op = "update"
                    /\ resp'.status = 404
                    /\ notes' = notes
       /\ \A id \in 1..seq : ~Has(notes, id) => ~Has(notes', id)]_vars

C10_Witness ==
    \E c \in Clients :
        /\ pc[c] = "update_readback"
        /\ ~Has(notes, req[c].id)

====
